---- MODULE Spec2Model ----
(***************************************************************************)
(* Model of src/app.py: a FastAPI application with seven routes and two    *)
(* exception handlers, served by one event loop.  A request arrives, is    *)
(* routed (and, for the POST route, its body validated against SomeData),  *)
(* its route handler runs, and an exception raised on the way is           *)
(* dispatched by class to one of the registered exception handlers or, if  *)
(* none is registered for it, rendered as a plain 500.                     *)
(***************************************************************************)
EXTENDS Integers, Sequences, FiniteSets, TLC

\* ---------------------------------------------------------------- bounds
NumReq == 2
IntSpread == 1

\* ------------------------------------------------------ program constants
\* SomeData.a: Field(..., ge=10)
Ge == 10
\* status_code=422 of the PlainTextResponse of validation_exception_handler
ValidationStatus == 422
\* HTTPException(status_code=404, ...) raised by error_404
NotFoundStatus == 404
\* RedirectResponse(url=...) called without status_code
RedirectDefaultStatus == 307

Requests == 1..NumReq
NoReq == 0

\* --------------------------------------------------------------- values
JsonVal(t, v) == [t |-> t, v |-> v]
Absent == JsonVal("absent", 0)
Null == JsonVal("null", 0)
Text == JsonVal("text", 0)
Ints == (Ge - IntSpread)..(Ge + IntSpread)

\* The values the field a of a JSON object can carry: nothing, null, a
\* non-numeric string, the integers around Ge, and on either side of the
\* constraint a numeric string "n" and a float n.0, and a float n.5.
FieldValues ==
    {Absent, Null, Text, JsonVal("float_frac", Ge)}
        \cup {JsonVal("int", n) : n \in Ints}
        \cup {JsonVal(t, n) : t \in {"numstr", "float_whole"}, n \in {Ge - 1, Ge}}

Bodies ==
    {[kind |-> "none", a |-> Absent], [kind |-> "invalid", a |-> Absent]}
        \cup {[kind |-> "object", a |-> x] : x \in FieldValues}
NoBody == [kind |-> "none", a |-> Absent]

NoErr == [type |-> "", loc |-> "", input |-> Absent]
NoErrStr == [title |-> "", type |-> "", loc |-> "", input |-> Absent]
NoExc == [cls |-> "none", status |-> 0, detail |-> "", err |-> NoErr]
NoResp ==
    [status |-> 0, media |-> "", shape |-> "", text |-> "", errstr |-> NoErrStr,
     location |-> ""]

VARIABLES pc, req, exc, resp, calls, log, loop
vars == <<pc, req, exc, resp, calls, log, loop>>

\* -------------------------------------------------------------- routing
\* The route table in registration order: @app.get / @app.post decorators.
Routes ==
    << [path |-> "/", method |-> "GET", endpoint |-> "redirect_to_docs"],
       [path |-> "/clickable-log", method |-> "GET", endpoint |-> "clickable_log"],
       [path |-> "/error", method |-> "GET", endpoint |-> "error"],
       [path |-> "/error-validation-error", method |-> "POST",
        endpoint |-> "error_validation_error"],
       [path |-> "/error-httpx-timeout", method |-> "GET", endpoint |-> "error_httpx"],
       [path |-> "/error-httpx-connection-refused", method |-> "GET",
        endpoint |-> "error_httpx_connection_refused"],
       [path |-> "/error-404", method |-> "GET", endpoint |-> "error_404"] >>

RoutePaths == {Routes[i].path : i \in DOMAIN Routes}
Paths == RoutePaths \cup {"/no-such-route"}

\* The requests a client sends: a GET on any path, a POST on a GET route,
\* and a POST with any body on the one route that declares a body
\* parameter.
RequestInputs ==
    {[method |-> "GET", path |-> p, body |-> NoBody] : p \in Paths}
        \cup {[method |-> "POST", path |-> "/", body |-> NoBody]}
        \cup {[method |-> "POST", path |-> "/error-validation-error", body |-> b] : b \in Bodies}
NoInput == [method |-> "", path |-> "", body |-> NoBody]

HttpExc(status, detail) ==
    [cls |-> "HTTPException", status |-> status, detail |-> detail, err |-> NoErr]
StarletteHttpExc(status, detail) ==
    [cls |-> "StarletteHTTPException", status |-> status, detail |-> detail, err |-> NoErr]

\* The router: the first route whose path and method match is called; a
\* path that matches with another method is a 405, no path match a 404,
\* both raised by the framework as starlette HTTPExceptions.
Match(method, path) ==
    LET full == {i \in DOMAIN Routes : Routes[i].path = path /\ Routes[i].method = method}
        partial == {i \in DOMAIN Routes : Routes[i].path = path}
    IN  IF full # {}
        THEN [endpoint |-> Routes[CHOOSE i \in full : \A j \in full : i <= j].endpoint,
              exc |-> NoExc]
        ELSE IF partial # {}
        THEN [endpoint |-> "", exc |-> StarletteHttpExc(405, "Method Not Allowed")]
        ELSE [endpoint |-> "", exc |-> StarletteHttpExc(NotFoundStatus, "Not Found")]

\* ------------------------------------------------------------ validation
\* a: int -- the conversion of a JSON value to int: an integer is taken as
\* it is, a numeric string and a float without fraction are converted, and
\* everything else is an error of the named type.
IntField(x) ==
    CASE x.t = "absent" -> [ok |-> FALSE, n |-> 0, type |-> "missing"]
      [] x.t = "null" -> [ok |-> FALSE, n |-> 0, type |-> "int_type"]
      [] x.t = "text" -> [ok |-> FALSE, n |-> 0, type |-> "int_parsing"]
      [] x.t = "float_frac" -> [ok |-> FALSE, n |-> 0, type |-> "int_from_float"]
      [] OTHER -> [ok |-> TRUE, n |-> x.v, type |-> ""]

\* Variant: the constraint written gt=10 instead of ge=10.
GeConstraint_Strict(n) == n > Ge

GeConstraint(n) == n >= Ge

\* class SomeData(BaseModel): a: int = Field(..., ge=10), as the body
\* parameter of error_validation_error.  The result is either the
\* validated model or the line error of the RequestValidationError.
SomeData(body) ==
    IF body.kind = "none"
    THEN [ok |-> FALSE, a |-> 0, err |-> [type |-> "missing", loc |-> "body", input |-> Absent]]
    ELSE IF body.kind = "invalid"
    THEN [ok |-> FALSE, a |-> 0,
          err |-> [type |-> "json_invalid", loc |-> "body", input |-> Absent]]
    ELSE LET c == IntField(body.a)
         IN  IF ~c.ok
             THEN [ok |-> FALSE, a |-> 0,
                   err |-> [type |-> c.type, loc |-> "body.a", input |-> body.a]]
             ELSE IF ~GeConstraint(c.n)
             THEN [ok |-> FALSE, a |-> 0,
                   err |-> [type |-> "greater_than_equal", loc |-> "body.a",
                            input |-> body.a]]
             ELSE [ok |-> TRUE, a |-> c.n, err |-> NoErr]

ValidationExc(err) ==
    [cls |-> "RequestValidationError", status |-> 0, detail |-> "", err |-> err]

\* str(ValidationError.from_exception_data(path, line_errors=exc.errors()))
ErrorStr(path, err) ==
    [title |-> path, type |-> err.type, loc |-> err.loc, input |-> err.input]

\* ----------------------------------------------------- exception dispatch
\* The classes of the exceptions in play, each with its base classes in
\* method resolution order.
Mro(cls) ==
    CASE cls = "HTTPException" ->
            <<"HTTPException", "StarletteHTTPException", "Exception">>
      [] cls = "StarletteHTTPException" -> <<"StarletteHTTPException", "Exception">>
      [] cls = "RequestValidationError" ->
            <<"RequestValidationError", "ValidationException", "Exception">>
      [] cls = "ConnectTimeout" ->
            <<"ConnectTimeout", "TimeoutException", "TransportError", "RequestError",
              "HTTPError", "Exception">>
      [] cls = "ConnectError" ->
            <<"ConnectError", "NetworkError", "TransportError", "RequestError",
              "HTTPError", "Exception">>
      [] OTHER -> <<"Exception">>

\* Variant: the HTTP handler registered for Exception.
ExceptionHandlers_CatchAll ==
    [RequestValidationError |-> "validation_exception_handler",
     Exception |-> "custom_http_exception_handler"]

\* Variant: the HTTP handler registered for httpx.HTTPError as well.
ExceptionHandlers_HTTPError ==
    [RequestValidationError |-> "validation_exception_handler",
     StarletteHTTPException |-> "custom_http_exception_handler",
     HTTPError |-> "custom_http_exception_handler"]

\* Variant: the HTTP handler registered for fastapi.HTTPException, which
\* the exceptions raised by the framework itself are not instances of.
ExceptionHandlers_FastAPIOnly ==
    [RequestValidationError |-> "validation_exception_handler",
     HTTPException |-> "custom_http_exception_handler"]

\* @app.exception_handler(...): the classes this application registers a
\* handler for.
ExceptionHandlers ==
    [RequestValidationError |-> "validation_exception_handler",
     StarletteHTTPException |-> "custom_http_exception_handler"]

\* The handler of the first class in the exception's MRO that has one, or
\* "" when no class has: the exception is then left to the server-error
\* middleware.
LookupHandler(cls) ==
    LET mro == Mro(cls)
        hits == {i \in DOMAIN mro : mro[i] \in DOMAIN ExceptionHandlers}
    IN  IF hits = {} THEN ""
        ELSE ExceptionHandlers[mro[CHOOSE i \in hits : \A j \in hits : i <= j]]

\* ------------------------------------------------------------- responses
\* Variant: RedirectResponse(url=url, status_code=302).
RedirectResponse_Found(url) ==
    [status |-> 302, media |-> "", shape |-> "empty", text |-> "", errstr |-> NoErrStr,
     location |-> url]

\* RedirectResponse(url=url): no status_code is passed, so the response
\* carries the class's default.
RedirectResponse(url) ==
    [status |-> RedirectDefaultStatus, media |-> "", shape |-> "empty", text |-> "",
     errstr |-> NoErrStr, location |-> url]

\* A route's return value rendered as JSON with the default status 200.
JSONResponse(text) ==
    [status |-> 200, media |-> "application/json", shape |-> "json", text |-> text,
     errstr |-> NoErrStr, location |-> ""]

\* Variant: status_code is not passed on, the response keeps the default.
PlainTextResponse_DefaultStatus(errstr, status) ==
    [status |-> 200, media |-> "text/plain", shape |-> "text", text |-> "",
     errstr |-> errstr, location |-> ""]

PlainTextResponse(errstr, status) ==
    [status |-> status, media |-> "text/plain", shape |-> "text", text |-> "",
     errstr |-> errstr, location |-> ""]

\* Variant: every HTTP exception rendered as a 500.
http_exception_handler_500(e) ==
    [status |-> 500, media |-> "application/json", shape |-> "detail",
     text |-> e.detail, errstr |-> NoErrStr, location |-> ""]

\* fastapi.exception_handlers.http_exception_handler: {"detail": exc.detail}
\* with the status code of the exception.
http_exception_handler(e) ==
    [status |-> e.status, media |-> "application/json", shape |-> "detail",
     text |-> e.detail, errstr |-> NoErrStr, location |-> ""]

\* The server-error middleware's answer to an exception nobody handled.
InternalServerError ==
    [status |-> 500, media |-> "text/plain", shape |-> "text",
     text |-> "Internal Server Error", errstr |-> NoErrStr, location |-> ""]

\* ---------------------------------------------------------------- logging
\* One record per call of logger.info / logger.warning.
LogRecord(level, status, text, errstr, exc_info, r) ==
    [level |-> level, status |-> status, text |-> text, errstr |-> errstr,
     exc_info |-> exc_info, req |-> r]

\* ------------------------------------------------------------------ state
\* pc[r]    where request r is: "new" (not sent yet), "queued" (sent, not
\*          yet picked up by the event loop), "endpoint" (routed and
\*          validated, the route handler is about to run), "logged"
\*          (clickable_log between its log call and its return),
\*          "outbound" (inside httpx.get), "raised" (an exception is
\*          propagating), "done" (the response is sent)
\* req[r]   the request; exc[r] the exception raised for it, if any
\* resp[r]  the response; calls[r] the functions of app.py run for r
\* log      the records emitted through logger, oldest first
\* loop     the request whose handler holds the event loop, or NoReq
TypeOK ==
    /\ pc \in [Requests -> {"new", "queued", "endpoint", "logged", "outbound", "raised",
                            "done"}]
    /\ req \in [Requests -> RequestInputs \cup {NoInput}]
    /\ DOMAIN exc = Requests
    /\ DOMAIN resp = Requests
    /\ DOMAIN calls = Requests
    /\ Len(log) <= NumReq
    /\ loop \in Requests \cup {NoReq}

Init ==
    /\ pc = [r \in Requests |-> "new"]
    /\ req = [r \in Requests |-> NoInput]
    /\ exc = [r \in Requests |-> NoExc]
    /\ resp = [r \in Requests |-> NoResp]
    /\ calls = [r \in Requests |-> <<>>]
    /\ log = <<>>
    /\ loop = NoReq

Endpoint(r) == Match(req[r].method, req[r].path).endpoint

\* A client sends request r.  Requests are numbered in the order they are
\* sent; the event loop is not involved.
Arrive(r, in) ==
    /\ pc[r] = "new"
    /\ \A q \in Requests : q < r => pc[q] # "new"
    /\ pc' = [pc EXCEPT ![r] = "queued"]
    /\ req' = [req EXCEPT ![r] = in]
    /\ UNCHANGED <<exc, resp, calls, log, loop>>

\* The framework picks the request up: routing, and for the route with a
\* body parameter the validation of the body against SomeData.
Dispatch(r) ==
    /\ loop = NoReq
    /\ pc[r] = "queued"
    /\ LET m == Match(req[r].method, req[r].path)
           v == SomeData(req[r].body)
       IN  IF m.exc # NoExc
           THEN /\ pc' = [pc EXCEPT ![r] = "raised"]
                /\ exc' = [exc EXCEPT ![r] = m.exc]
           ELSE IF m.endpoint = "error_validation_error" /\ ~v.ok
           THEN /\ pc' = [pc EXCEPT ![r] = "raised"]
                /\ exc' = [exc EXCEPT ![r] = ValidationExc(v.err)]
           ELSE /\ pc' = [pc EXCEPT ![r] = "endpoint"]
                /\ UNCHANGED exc
    /\ UNCHANGED <<req, resp, calls, log, loop>>

\* Guard of every route handler: the loop is free and r is routed to it.
Called(r, endpoint) ==
    /\ loop = NoReq
    /\ pc[r] = "endpoint"
    /\ Endpoint(r) = endpoint

Returns(r, name, response) ==
    /\ pc' = [pc EXCEPT ![r] = "done"]
    /\ resp' = [resp EXCEPT ![r] = response]
    /\ calls' = [calls EXCEPT ![r] = Append(@, name)]

Raises(r, name, e) ==
    /\ pc' = [pc EXCEPT ![r] = "raised"]
    /\ exc' = [exc EXCEPT ![r] = e]
    /\ calls' = [calls EXCEPT ![r] = Append(@, name)]

redirect_to_docs(r) ==
    /\ Called(r, "redirect_to_docs")
    /\ Returns(r, "redirect_to_docs", RedirectResponse("/docs"))
    /\ UNCHANGED <<req, exc, log, loop>>

\* Variant: clickable_log without its logger.info(...) call.
clickable_log_silent(r) ==
    /\ loop = NoReq
    /\ pc[r] = "endpoint"
    /\ Match(req[r].method, req[r].path).endpoint = "clickable_log"
    /\ pc' = [pc EXCEPT ![r] = "logged"]
    /\ calls' = [calls EXCEPT ![r] = Append(@, "clickable_log")]
    /\ loop' = r
    /\ UNCHANGED <<req, exc, resp, log>>

\* clickable_log up to and including logger.info(...)
clickable_log(r) ==
    /\ Called(r, "clickable_log")
    /\ log' = Append(log, LogRecord("INFO", 0,
                  "This will show with source code location and timing", NoErrStr, FALSE, r))
    /\ pc' = [pc EXCEPT ![r] = "logged"]
    /\ calls' = [calls EXCEPT ![r] = Append(@, "clickable_log")]
    /\ loop' = r
    /\ UNCHANGED <<req, exc, resp>>

\* Variant: the acknowledgment tells whether anything was logged before,
\* as a handler reading a module-level counter would.
clickable_log_return_counted(r) ==
    /\ loop = r
    /\ pc[r] = "logged"
    /\ pc' = [pc EXCEPT ![r] = "done"]
    /\ resp' = [resp EXCEPT ![r] =
                  JSONResponse(IF Len(log) = 1
                               THEN "{\"message\": \"Clickable log!\"}"
                               ELSE "{\"message\": \"Clickable log again!\"}")]
    /\ loop' = NoReq
    /\ UNCHANGED <<req, exc, calls, log>>

\* clickable_log: return JSONResponse({"message": "Clickable log!"})
clickable_log_return(r) ==
    /\ loop = r
    /\ pc[r] = "logged"
    /\ pc' = [pc EXCEPT ![r] = "done"]
    /\ resp' = [resp EXCEPT ![r] = JSONResponse("{\"message\": \"Clickable log!\"}")]
    /\ loop' = NoReq
    /\ UNCHANGED <<req, exc, calls, log>>

error(r) ==
    /\ Called(r, "error")
    /\ Raises(r, "error",
              [cls |-> "Exception", status |-> 0, detail |-> "This is a test error",
               err |-> NoErr])
    /\ UNCHANGED <<req, resp, log, loop>>

error_validation_error(r) ==
    /\ Called(r, "error_validation_error")
    /\ Returns(r, "error_validation_error", JSONResponse("true"))
    /\ UNCHANGED <<req, exc, log, loop>>

\* Variant: the outbound call awaited on an asynchronous client, giving
\* the event loop back while it is under way.
OutboundStart_Yields(r, name) ==
    /\ pc' = [pc EXCEPT ![r] = "outbound"]
    /\ calls' = [calls EXCEPT ![r] = Append(@, name)]
    /\ loop' = NoReq
    /\ UNCHANGED <<req, exc, resp, log>>

\* httpx.get(...) is entered: a synchronous call, so the handler keeps the
\* event loop until the call is over.
OutboundStart(r, name) ==
    /\ pc' = [pc EXCEPT ![r] = "outbound"]
    /\ calls' = [calls EXCEPT ![r] = Append(@, name)]
    /\ loop' = r
    /\ UNCHANGED <<req, exc, resp, log>>

error_httpx(r) ==
    /\ Called(r, "error_httpx")
    /\ OutboundStart(r, "error_httpx")

error_httpx_connection_refused(r) ==
    /\ Called(r, "error_httpx_connection_refused")
    /\ OutboundStart(r, "error_httpx_connection_refused")

OutboundErrors == {"ConnectTimeout", "ConnectError"}

\* httpx.get(..., timeout=1) fails: the error leaves the route handler.
httpx_get_raises(r, cls) ==
    /\ loop = r
    /\ pc[r] = "outbound"
    /\ pc' = [pc EXCEPT ![r] = "raised"]
    /\ exc' = [exc EXCEPT ![r] = [cls |-> cls, status |-> 0, detail |-> "", err |-> NoErr]]
    /\ loop' = NoReq
    /\ UNCHANGED <<req, resp, calls, log>>

\* httpx.get(..., timeout=1) gets an answer: the route handler falls off
\* its end and returns None.
httpx_get_returns(r) ==
    /\ loop = r
    /\ pc[r] = "outbound"
    /\ pc' = [pc EXCEPT ![r] = "done"]
    /\ resp' = [resp EXCEPT ![r] = JSONResponse("null")]
    /\ loop' = NoReq
    /\ UNCHANGED <<req, exc, calls, log>>

error_404(r) ==
    /\ Called(r, "error_404")
    /\ Raises(r, "error_404", HttpExc(NotFoundStatus, "Not Found"))
    /\ UNCHANGED <<req, resp, log, loop>>

\* Guard of the exception middleware's dispatch to a handler.
Handles(r, handler) ==
    /\ loop = NoReq
    /\ pc[r] = "raised"
    /\ LookupHandler(exc[r].cls) = handler

validation_exception_handler(r) ==
    /\ Handles(r, "validation_exception_handler")
    /\ LET error_str == ErrorStr(req[r].path, exc[r].err)
       IN  /\ log' = Append(log, LogRecord("WARNING", 0, "", error_str, FALSE, r))
           /\ Returns(r, "validation_exception_handler",
                      PlainTextResponse(error_str, ValidationStatus))
    /\ UNCHANGED <<req, exc, loop>>

custom_http_exception_handler(r) ==
    /\ Handles(r, "custom_http_exception_handler")
    /\ log' = Append(log, LogRecord("WARNING", exc[r].status, exc[r].detail, NoErrStr,
                                    TRUE, r))
    /\ Returns(r, "custom_http_exception_handler", http_exception_handler(exc[r]))
    /\ UNCHANGED <<req, exc, loop>>

\* No handler is registered for the exception: the framework answers 500.
server_error(r) ==
    /\ Handles(r, "")
    /\ pc' = [pc EXCEPT ![r] = "done"]
    /\ resp' = [resp EXCEPT ![r] = InternalServerError]
    /\ UNCHANGED <<req, exc, calls, log, loop>>

Next ==
    \E r \in Requests :
        \/ \E in \in RequestInputs : Arrive(r, in)
        \/ Dispatch(r)
        \/ redirect_to_docs(r)
        \/ clickable_log(r)
        \/ clickable_log_return(r)
        \/ error(r)
        \/ error_validation_error(r)
        \/ error_httpx(r)
        \/ error_httpx_connection_refused(r)
        \/ \E cls \in OutboundErrors : httpx_get_raises(r, cls)
        \/ httpx_get_returns(r)
        \/ error_404(r)
        \/ validation_exception_handler(r)
        \/ custom_http_exception_handler(r)
        \/ server_error(r)

Spec == Init /\ [][Next]_vars

\* The outbound call carries timeout=1: once entered it comes to an end.
OutboundEnds(r) == (\E cls \in OutboundErrors : httpx_get_raises(r, cls)) \/ httpx_get_returns(r)

FairSpec == Spec /\ \A r \in Requests : WF_vars(OutboundEnds(r))

\* ================================================================ claims
Done(r) == pc[r] = "done"
Is(r, method, path) == req[r].method = method /\ req[r].path = path
Runs(r, name) == Cardinality({i \in DOMAIN calls[r] : calls[r][i] = name})
Records(r, level) == {i \in DOMAIN log : log[i].req = r /\ log[i].level = level}
ExcHandlerRuns(r) ==
    Runs(r, "validation_exception_handler") + Runs(r, "custom_http_exception_handler")

\* C1 (as stated): every answered GET / is a redirect with status 302 and
\* Location /docs.
C1_Redirect302 ==
    \A r \in Requests :
        Done(r) /\ Is(r, "GET", "/") =>
            resp[r].status = 302 /\ resp[r].location = "/docs"

\* C1 (amended): every answered GET / is a redirect with status 307, the
\* default of RedirectResponse, and Location /docs, whatever was requested
\* before it; no handler of app.py other than redirect_to_docs runs.
C1_Redirect307 ==
    \A r \in Requests :
        Done(r) /\ Is(r, "GET", "/") =>
            /\ resp[r].status = 307
            /\ resp[r].location = "/docs"
            /\ calls[r] = <<"redirect_to_docs">>

C1_Witness ==
    \E r, q \in Requests :
        /\ q < r /\ Done(q) /\ ~Is(q, "GET", "/")
        /\ Done(r) /\ Is(r, "GET", "/")

IsPost(r) == Is(r, "POST", "/error-validation-error")

\* C2: POST /error-validation-error with a JSON object whose a is an
\* integer >= 10 is answered 200 with body true; only the route handler
\* runs and no warning is logged for the request.
C2_ValidBody ==
    \A r \in Requests :
        /\ Done(r) /\ IsPost(r)
        /\ req[r].body.kind = "object" /\ req[r].body.a.t = "int" /\ req[r].body.a.v >= 10
        => /\ resp[r].status = 200
           /\ resp[r].shape = "json" /\ resp[r].text = "true"
           /\ calls[r] = <<"error_validation_error">>
           /\ Records(r, "WARNING") = {}

C2_Witness ==
    \E r \in Requests :
        /\ Done(r) /\ IsPost(r)
        /\ req[r].body = [kind |-> "object", a |-> JsonVal("int", 10)]

\* The bodies that fail the schema: no body or no JSON; a missing, null,
\* a non-numeric string or a number with a fraction; or a number below 10.
FailsSchema(body) ==
    \/ body.kind # "object"
    \/ body.a.t \in {"absent", "null", "text", "float_frac"}
    \/ body.a.v < 10

\* C3: POST /error-validation-error with a body that fails the schema
\* never reaches the route handler: validation_exception_handler is the
\* only function of app.py that runs, once; it logs one warning without
\* traceback, and the answer is 422 text/plain with the logged message.
C3_InvalidBody ==
    \A r \in Requests :
        Done(r) /\ IsPost(r) /\ FailsSchema(req[r].body) =>
            /\ calls[r] = <<"validation_exception_handler">>
            /\ Cardinality(Records(r, "WARNING")) = 1
            /\ \A i \in Records(r, "WARNING") :
                  /\ log[i].exc_info = FALSE
                  /\ log[i].errstr # NoErrStr
                  /\ resp[r].errstr = log[i].errstr
            /\ resp[r].status = 422
            /\ resp[r].media = "text/plain"

C3_Witness ==
    /\ \E r \in Requests :
          Done(r) /\ IsPost(r) /\ req[r].body = [kind |-> "object", a |-> JsonVal("int", 9)]
    /\ \E r \in Requests :
          Done(r) /\ IsPost(r) /\ req[r].body.a.t \in {"absent", "text"}

\* C4: GET /error-404 is answered 404 with detail "Not Found": error_404
\* raises, custom_http_exception_handler runs once and logs one warning
\* carrying the exception, and the answer has the status and the detail of
\* the raised exception.
C4_Error404 ==
    \A r \in Requests :
        Done(r) /\ Is(r, "GET", "/error-404") =>
            /\ calls[r] = <<"error_404", "custom_http_exception_handler">>
            /\ Cardinality(Records(r, "WARNING")) = 1
            /\ \A i \in Records(r, "WARNING") : log[i].exc_info = TRUE
            /\ resp[r].status = 404 /\ resp[r].shape = "detail" /\ resp[r].text = "Not Found"
            /\ resp[r].status = exc[r].status /\ resp[r].text = exc[r].detail

C4_Witness == \E r \in Requests : Done(r) /\ Is(r, "GET", "/error-404")

\* C5: GET /error is answered 500 by the framework: neither exception
\* handler runs and app.py logs no warning for the request.
C5_Error500 ==
    \A r \in Requests :
        Done(r) /\ Is(r, "GET", "/error") =>
            /\ resp[r].status = 500
            /\ calls[r] = <<"error">>
            /\ ExcHandlerRuns(r) = 0
            /\ Records(r, "WARNING") = {}

C5_Witness == \E r \in Requests : Done(r) /\ Is(r, "GET", "/error") /\ exc[r].cls = "Exception"

\* C6: GET /clickable-log is answered 200 with {"message": "Clickable
\* log!"}; the request has at most one INFO record at any time, and
\* exactly one from the moment its handler has logged, which is before
\* the response exists.
C6_ClickableLog ==
    \A r \in Requests :
        Is(r, "GET", "/clickable-log") =>
            /\ Cardinality(Records(r, "INFO")) = (IF pc[r] \in {"logged", "done"} THEN 1 ELSE 0)
            /\ resp[r] # NoResp => Cardinality(Records(r, "INFO")) = 1
            /\ pc[r] = "logged" => resp[r] = NoResp
            /\ Done(r) =>
                  /\ resp[r].status = 200
                  /\ resp[r].shape = "json"
                  /\ resp[r].text = "{\"message\": \"Clickable log!\"}"

C6_Witness ==
    \E r, q \in Requests :
        /\ Done(r) /\ Is(r, "GET", "/clickable-log")
        /\ q # r /\ Done(q) /\ Is(q, "GET", "/clickable-log")

HttpxPaths == {"/error-httpx-timeout", "/error-httpx-connection-refused"}
IsHttpx(r) == req[r].method = "GET" /\ req[r].path \in HttpxPaths

\* C7: when the outbound GET of an httpx route fails, the error leaves the
\* route handler, no exception handler of app.py is found for it or runs,
\* and the request ends as the framework's 500.
C7_OutboundFailure ==
    \A r \in Requests :
        IsHttpx(r) /\ exc[r].cls \in OutboundErrors =>
            /\ pc[r] \in {"raised", "done"}
            /\ LookupHandler(exc[r].cls) = ""
            /\ ExcHandlerRuns(r) = 0
            /\ Records(r, "WARNING") = {}
            /\ Done(r) => resp[r].status = 500 /\ resp[r] = InternalServerError

C7_Witness ==
    /\ \E r \in Requests :
          Done(r) /\ Is(r, "GET", "/error-httpx-timeout") /\ exc[r].cls = "ConnectTimeout"
    /\ \E r \in Requests :
          /\ Done(r) /\ Is(r, "GET", "/error-httpx-connection-refused")
          /\ exc[r].cls = "ConnectError"

StatelessPaths == {"/", "/clickable-log", "/error", "/error-validation-error", "/error-404"}

\* The response as a function of the request alone, for the routes of
\* StatelessPaths.
ResponseOf(in) ==
    LET m == Match(in.method, in.path)
        v == SomeData(in.body)
    IN  CASE m.exc # NoExc -> http_exception_handler(m.exc)
          [] m.endpoint = "redirect_to_docs" -> RedirectResponse("/docs")
          [] m.endpoint = "clickable_log" -> JSONResponse("{\"message\": \"Clickable log!\"}")
          [] m.endpoint = "error" -> InternalServerError
          [] m.endpoint = "error_404" -> http_exception_handler(HttpExc(404, "Not Found"))
          [] m.endpoint = "error_validation_error" /\ v.ok -> JSONResponse("true")
          [] OTHER -> PlainTextResponse(ErrorStr(in.path, v.err), 422)

\* C8: the answer to a request on one of the five routes is determined by
\* the request alone: it is ResponseOf(request), so two equal requests get
\* equal answers whatever was served before or in between.
C8_Stateless ==
    /\ \A r \in Requests :
          Done(r) /\ req[r].path \in StatelessPaths => resp[r] = ResponseOf(req[r])
    /\ \A r, q \in Requests :
          Done(r) /\ Done(q) /\ req[r] = req[q] /\ req[r].path \in StatelessPaths
              => resp[r] = resp[q]

C8_Witness ==
    \E r, q \in Requests :
        /\ r < q /\ Done(r) /\ Done(q)
        /\ req[r] = req[q] /\ req[r].path \in StatelessPaths
        /\ log # <<>>

HttpClasses == {"HTTPException", "StarletteHTTPException"}

\* C9: for every request at most one exception handler runs, at most once:
\* validation_exception_handler only for a RequestValidationError,
\* custom_http_exception_handler only for an HTTP exception; an answered
\* request whose exception is of one of these classes had its handler run,
\* and for an HTTP exception, the framework's 404 and 405 included, one
\* warning is logged and the answer keeps the exception's status.
C9_OneHandler ==
    \A r \in Requests :
        /\ ExcHandlerRuns(r) <= 1
        /\ Runs(r, "validation_exception_handler") = 1
              => exc[r].cls = "RequestValidationError"
        /\ Runs(r, "custom_http_exception_handler") = 1 => exc[r].cls \in HttpClasses
        /\ Done(r) /\ exc[r].cls = "RequestValidationError"
              => Runs(r, "validation_exception_handler") = 1
        /\ Done(r) /\ exc[r].cls \in HttpClasses =>
              /\ Runs(r, "custom_http_exception_handler") = 1
              /\ Cardinality(Records(r, "WARNING")) = 1
              /\ resp[r].status = exc[r].status
        /\ Done(r) /\ req[r].path = "/no-such-route" =>
              /\ exc[r].cls = "StarletteHTTPException"
              /\ resp[r].status = 404

C9_Witness ==
    /\ \E r \in Requests : Done(r) /\ req[r].path = "/no-such-route"
    /\ \E r \in Requests : Done(r) /\ exc[r].cls = "StarletteHTTPException" /\ exc[r].status = 405

\* Request q moves on in this step (being sent is the client's doing, not
\* a handler's).
Progress(q) == pc[q] # "new" /\ (pc'[q] # pc[q] \/ resp'[q] # resp[q] \/ calls'[q] # calls[q])

\* C10: while the handler of an httpx route is inside httpx.get, no other
\* request moves on and nothing is logged; and the call comes to an end.
C10_Blocking ==
    /\ [][\A r \in Requests :
              pc[r] = "outbound" =>
                  /\ IsHttpx(r)
                  /\ log' = log
                  /\ \A q \in Requests \ {r} : ~Progress(q)]_vars
    /\ \A r \in Requests : (pc[r] = "outbound") ~> (pc[r] # "outbound")

C10_Witness ==
    \E r, q \in Requests :
        /\ pc[r] = "outbound" /\ IsHttpx(r)
        /\ pc[q] \in {"queued", "endpoint", "raised"}

====
